---- MODULE Spec2Model ----
(***************************************************************************)
(* storage/src/objects/transaction.rs: the wire transaction                *)
(* (SerialTransaction), its canonical byte layout (write_le), its size()   *)
(* estimator and the VMTransaction converter (deserialize / serialize)     *)
(* between the wire transaction and the snarkvm_dpc testnet1 Transaction.  *)
(*                                                                         *)
(* Bytes are naturals 0..255 and byte strings are sequences of them.  The  *)
(* snarkvm value types the converter is generic over are modelled by their *)
(* FromBytes/ToBytes behaviour on a reader: a value is a sequence of field *)
(* elements, a field element a little-endian sequence of limbs, and a      *)
(* reader consumes exactly the bytes of one value from the front of the    *)
(* slice it is given.                                                      *)
(***************************************************************************)
EXTENDS Integers, Sequences, FiniteSets, TLC

VARIABLES
    w,        \* the SerialTransaction at hand, or NoTx
    d,        \* the IoResult<Transaction> at hand, or NoTx
    prevW,    \* the SerialTransaction d was deserialized from, or NoTx
    prevD,    \* the Transaction w was serialized from, or NoTx
    encW,     \* bytes written by SerialTransaction::write_le for w, or NoBytes
    encD,     \* bytes written by Transaction::write_le for d, or NoBytes
    sz,       \* w.size(), or NoSize
    calls,    \* number of serialize calls so far
    idLog     \* every <<Transaction, id>> a serialize call has produced

vars == <<w, d, prevW, prevD, encW, encD, sz, calls, idLog>>

----------------------------------------------------------------------------
(* Bounds of the model *)

\* bytes of one limb of a field element (u64 limbs in snarkvm)
LimbBytes == 2
\* limbs of one base field element
FieldLimbs == 1
\* fields of a base wire transaction replaced at once when drawing the inputs
MaxEdits == 1
\* serialize calls in one run
MaxCalls == 2

\* u8
ByteBase == 256
\* leading byte of the field modulus: encodings at or above it are not
\* canonical field elements
ModulusTopByte == 18

NoTx == [none |-> TRUE]
NoBytes == <<-1>>
NoSize == 0 - 1
Err == [ok |-> FALSE]
Ok(v) == [ok |-> TRUE, val |-> v]

----------------------------------------------------------------------------
(* Byte strings *)

\* [b; n]
Rep(b, n) == [i \in 1..n |-> b]

RECURSIVE sum(_)
\* Iterator::sum over a sequence of lengths
sum(s) == IF s = <<>> THEN 0 ELSE Head(s) + sum(Tail(s))

Take(s, n) == SubSeq(s, 1, n)

RECURSIVE LEBytes(_, _)
\* to_le_bytes of an unsigned integer of n bytes
LEBytes(v, n) == IF n = 0 THEN <<>> ELSE <<v % ByteBase>> \o LEBytes(v \div ByteBase, n - 1)

RECURSIVE LEValue(_)
\* from_le_bytes
LEValue(s) == IF s = <<>> THEN 0 ELSE Head(s) + ByteBase * LEValue(Tail(s))

RECURSIVE Flatten(_)
Flatten(ss) == IF ss = <<>> THEN <<>> ELSE Head(ss) \o Flatten(Tail(ss))

----------------------------------------------------------------------------
(* The value types of the parameter set (snarkvm, Testnet1Components):     *)
(* what FromBytes::read_le / ToBytes::write_le do on them.                 *)

\* a limb of the modulus: the modulus is <<1, 0, .., 0, top>> in limbs
ModulusLimb(i, k) ==
    (IF i = 1 THEN 1 ELSE 0)
  + (IF i = k THEN ModulusTopByte * ByteBase ^ (LimbBytes - 1) ELSE 0)

RECURSIVE LtModulus(_, _)
\* x < modulus, on the k low limbs, most significant limb first
LtModulus(x, k) ==
    IF k = 0 THEN FALSE
    ELSE \/ x[k] < ModulusLimb(k, Len(x))
         \/ x[k] = ModulusLimb(k, Len(x)) /\ LtModulus(x, k - 1)

\* field elements of one value of type B
Elems(B) ==
    CASE B = "Field" -> 1
      [] B = "CircuitId" -> 1
      [] B = "Signature" -> 2
      [] B = "Proof" -> 3

\* limbs of one field element of type B
Limbs(B) == IF B = "CircuitId" THEN FieldLimbs + 1 ELSE FieldLimbs

ElemBytes(B) == Limbs(B) * LimbBytes
ByteLen(B) == Elems(B) * ElemBytes(B)
\* [u8; 32] of the memorandum, one field element wide
MemoLen == FieldLimbs * LimbBytes

\* the limbs held by the bytes of one field element
LimbsOf(bytes) ==
    [i \in 1..(Len(bytes) \div LimbBytes) |->
        LEValue(SubSeq(bytes, (i - 1) * LimbBytes + 1, i * LimbBytes))]

\* the bytes of the limbs of one field element
BytesOf(x) == Flatten([i \in 1..Len(x) |-> LEBytes(x[i], LimbBytes)])

\* FromBytes::read_le of a value made of field elements: reads ByteLen(B)
\* bytes off the front of the reader and rejects a non-canonical element
read_elems(B, bytes) ==
    IF Len(bytes) < ByteLen(B) THEN Err
    ELSE LET v == [e \in 1..Elems(B) |->
                     LimbsOf(SubSeq(bytes, (e - 1) * ElemBytes(B) + 1, e * ElemBytes(B)))]
         IN  IF \A e \in 1..Elems(B) : LtModulus(v[e], Len(v[e])) THEN Ok(v) ELSE Err

write_elems(v) == Flatten([e \in 1..Len(v) |-> BytesOf(v[e])])

\* EncryptedRecord::read_le: a one-byte element count (the variable-length
\* integer of a count below 253), the elements, the final sign flag
read_record(bytes) ==
    IF Len(bytes) < 1 \/ bytes[1] >= 253 THEN Err
    ELSE LET n == bytes[1]
             need == 1 + n * ElemBytes("Field") + 1
         IN  IF Len(bytes) < need THEN Err
             ELSE LET els == [e \in 1..n |->
                                LimbsOf(SubSeq(bytes, 1 + (e - 1) * ElemBytes("Field") + 1,
                                               1 + e * ElemBytes("Field")))]
                      flag == bytes[need]
                  IN  IF /\ \A e \in 1..n : LtModulus(els[e], Len(els[e]))
                         /\ flag \in {0, 1}
                      THEN Ok([encrypted_record |-> els, final_sign_high |-> (flag = 1)])
                      ELSE Err

\* EncryptedRecord::write_le
write_record(r) ==
    <<Len(r.encrypted_record)>> \o write_elems(r.encrypted_record)
        \o <<IF r.final_sign_high THEN 1 ELSE 0>>

\* FromBytes::read_le, by type
read_le(B, bytes) ==
    CASE B = "Memorandum" ->
            IF Len(bytes) < MemoLen THEN Err ELSE Ok(Take(bytes, MemoLen))
      [] B = "EncryptedRecord" -> read_record(bytes)
      [] OTHER -> read_elems(B, bytes)

\* ToBytes::write_le appended to the writer, by type
write_value(B, v) ==
    CASE B = "Memorandum" -> v
      [] B = "EncryptedRecord" -> write_record(v)
      [] OTHER -> write_elems(v)

\* CanonicalDeserialize::deserialize of a serial number: the compressed
\* point, its sign flag in the top bit of the last byte
canonical_deserialize(bytes) ==
    LET n == ElemBytes("Field") IN
    IF Len(bytes) < n THEN Err
    ELSE LET last == bytes[n]
             x == LimbsOf([Take(bytes, n) EXCEPT ![n] = last % 128])
         IN  IF LtModulus(x, Len(x)) THEN Ok([x |-> x, flag |-> (last >= 128)]) ELSE Err

\* CanonicalSerialize::serialize of a serial number, appended to the writer
canonical_serialize(sn) ==
    LET b == BytesOf(sn.x)
    IN  [b EXCEPT ![Len(b)] = @ + (IF sn.flag THEN 128 ELSE 0)]

\* i64::write_le of AleoAmount: two's complement, little-endian
AmountBytes == 8
amount_write_le(a) ==
    IF a >= 0 THEN LEBytes(a, AmountBytes)
    ELSE LET m == LEBytes(-a - 1, AmountBytes)
         IN  [i \in 1..AmountBytes |-> 255 - m[i]]

\* Network::write_le: the network id as one byte
network_write_le(n) == IF n = "Mainnet" THEN <<0>> ELSE <<1>>

\* [u8; 32]
IdLen == 32

RECURSIVE digest_fold(_, _)
\* the hash of the identifier, as a running checksum of the pre-image
digest_fold(h, bytes) ==
    IF bytes = <<>> THEN h
    ELSE digest_fold((h * 31 + Head(bytes) + 1) % (ByteBase * ByteBase - 15), Tail(bytes))

\* Transaction::transaction_id: the hash of the serial numbers, the
\* commitments and the memorandum
transaction_id(t) ==
    LET pre == Flatten([i \in 1..Len(t.old_serial_numbers) |->
                            canonical_serialize(t.old_serial_numbers[i])])
               \o Flatten([i \in 1..Len(t.new_commitments) |->
                            write_value("Field", t.new_commitments[i])])
               \o t.memorandum
    IN  LEBytes(digest_fold(7, pre), IdLen)

----------------------------------------------------------------------------
(* SerialTransaction *)

\* size_of::<SerialTransaction>(), size_of::<Digest>() and
\* size_of::<SerialRecord>() on a 64-bit target
SizeOfSerialTransaction == 408
SizeOfDigest == 48
SizeOfSerialRecord == 296

\* size() with the signatures left out of the digest count
size_without_signatures(self) ==
    SizeOfSerialTransaction
  + SizeOfDigest * (Len(self.old_serial_numbers) + Len(self.new_commitments))
  + SizeOfSerialRecord * Len(self.new_records)
  + sum([i \in 1..Len(self.new_records) |-> Len(self.new_records[i])])
  + Len(self.transaction_proof)

\* SerialTransaction::size
size(self) ==
    SizeOfSerialTransaction
  + SizeOfDigest * (Len(self.old_serial_numbers) + Len(self.new_commitments) + Len(self.signatures))
  + SizeOfSerialRecord * Len(self.new_records)
  + sum([i \in 1..Len(self.new_records) |-> Len(self.new_records[i])])
  + Len(self.transaction_proof)

\* Write::write_all on the Vec<u8> writer
write_all(writer, buf) == writer \o buf

RECURSIVE write_each(_, _)
\* for item in items { writer.write_all(&item[..])?; }
write_each(writer, items) ==
    IF items = <<>> THEN writer
    ELSE write_each(write_all(writer, Head(items)), Tail(items))

\* write_le with the ledger digest written before the memorandum
write_le_digest_first(self) ==
    LET w1 == write_each(<<>>, self.old_serial_numbers)
        w2 == write_each(w1, self.new_commitments)
        w3 == write_all(w2, self.ledger_digest)
        w4 == write_all(w3, self.memorandum)
        w5 == write_all(w4, self.inner_circuit_id)
        w6 == write_all(w5, self.transaction_proof)
        w7 == write_all(w6, self.program_commitment)
        w8 == write_all(w7, self.local_data_root)
        w9 == write_all(w8, amount_write_le(self.value_balance))
        w10 == write_all(w9, network_write_le(self.network))
        w11 == write_each(w10, self.signatures)
        w12 == write_each(w11, self.new_records)
    IN  Ok(w12)

\* <SerialTransaction as ToBytes>::write_le, the writer threaded through the
\* statements in their order
write_le(self) ==
    LET w1 == write_each(<<>>, self.old_serial_numbers)
        w2 == write_each(w1, self.new_commitments)
        w3 == write_all(w2, self.memorandum)
        w4 == write_all(w3, self.ledger_digest)
        w5 == write_all(w4, self.inner_circuit_id)
        w6 == write_all(w5, self.transaction_proof)
        w7 == write_all(w6, self.program_commitment)
        w8 == write_all(w7, self.local_data_root)
        w9 == write_all(w8, amount_write_le(self.value_balance))
        w10 == write_all(w9, network_write_le(self.network))
        w11 == write_each(w10, self.signatures)
        w12 == write_each(w11, self.new_records)
    IN  Ok(w12)

----------------------------------------------------------------------------
(* The codec helpers *)

serialize_digest(B, bytes) == Ok(write_value(B, bytes))

serialize_bytes(B, bytes) == Ok(write_value(B, bytes))

RECURSIVE push_digests(_, _, _)
\* the loop of serialize_many_digests: out.push(serialize_digest(item)?)
push_digests(B, items, out) ==
    IF items = <<>> THEN Ok(out)
    ELSE LET r == serialize_digest(B, Head(items))
         IN  IF ~r.ok THEN Err ELSE push_digests(B, Tail(items), Append(out, r.val))

serialize_many_digests(B, items) == push_digests(B, items, <<>>)

\* deserialize_bytes reading a short slice as if zero bytes followed it
deserialize_bytes_zero_filled(B, bytes) == read_le(B, bytes \o Rep(0, ByteLen("Proof")))

deserialize_bytes(B, bytes) == read_le(B, bytes)

RECURSIVE collect(_, _, _)
\* collect::<IoResult<Vec<_>>>() over map(deserialize_bytes): stops at the
\* first Err and returns it alone
collect(B, bytes, out) ==
    IF bytes = <<>> THEN Ok(out)
    ELSE LET r == deserialize_bytes(B, Head(bytes))
         IN  IF ~r.ok THEN Err ELSE collect(B, Tail(bytes), Append(out, r.val))

RECURSIVE deserialize_many_bytes_lossy(_, _)
\* deserialize_many_bytes keeping the elements that decode and dropping the
\* others (filter_map in place of collect over IoResult)
deserialize_many_bytes_lossy(B, bytes) ==
    IF bytes = <<>> THEN Ok(<<>>)
    ELSE LET r == deserialize_bytes(B, Head(bytes))
             rest == deserialize_many_bytes_lossy(B, Tail(bytes))
         IN  IF r.ok THEN Ok(<<r.val>> \o rest.val) ELSE rest

deserialize_many_bytes(B, bytes) == collect(B, bytes, <<>>)

----------------------------------------------------------------------------
(* VMTransaction for Transaction<T> *)

RECURSIVE deserialize_serials(_, _)
\* the loop over tx.old_serial_numbers
deserialize_serials(serials, out) ==
    IF serials = <<>> THEN Ok(out)
    ELSE LET r == canonical_deserialize(Head(serials))
         IN  IF ~r.ok THEN Err ELSE deserialize_serials(Tail(serials), Append(out, r.val))

deserialize(tx) ==
    LET old_serial_numbers == deserialize_serials(tx.old_serial_numbers, <<>>)
        ledger_digest == deserialize_bytes("Field", tx.ledger_digest)
        new_commitments == deserialize_many_bytes("Field", tx.new_commitments)
        program_commitment == deserialize_bytes("Field", tx.program_commitment)
        local_data_root == deserialize_bytes("Field", tx.local_data_root)
        signatures == deserialize_many_bytes("Signature", tx.signatures)
        encrypted_records == deserialize_many_bytes("EncryptedRecord", tx.new_records)
        transaction_proof == deserialize_bytes("Proof", tx.transaction_proof)
        memorandum == deserialize_bytes("Memorandum", tx.memorandum)
        inner_circuit_id == deserialize_bytes("CircuitId", tx.inner_circuit_id)
    IN  IF ~old_serial_numbers.ok THEN Err
        ELSE IF ~ledger_digest.ok THEN Err
        ELSE IF ~new_commitments.ok THEN Err
        ELSE IF ~program_commitment.ok THEN Err
        ELSE IF ~local_data_root.ok THEN Err
        ELSE IF ~signatures.ok THEN Err
        ELSE IF ~encrypted_records.ok THEN Err
        ELSE IF ~transaction_proof.ok THEN Err
        ELSE IF ~memorandum.ok THEN Err
        ELSE IF ~inner_circuit_id.ok THEN Err
        ELSE Ok([network |-> tx.network,
                 ledger_digest |-> ledger_digest.val,
                 old_serial_numbers |-> old_serial_numbers.val,
                 new_commitments |-> new_commitments.val,
                 program_commitment |-> program_commitment.val,
                 local_data_root |-> local_data_root.val,
                 value_balance |-> tx.value_balance,
                 signatures |-> signatures.val,
                 encrypted_records |-> encrypted_records.val,
                 transaction_proof |-> transaction_proof.val,
                 memorandum |-> memorandum.val,
                 inner_circuit_id |-> inner_circuit_id.val])

\* an identifier taken from the number of the call, not from the content
serialize_id_by_call(self) == LEBytes(calls + 1, IdLen)

\* self.transaction_id().unwrap()
serialize_id(self) == transaction_id(self)

RECURSIVE serialize_serials_reversed(_, _)
\* the loop over self.old_serial_numbers pushing at the front
serialize_serials_reversed(serials, out) ==
    IF serials = <<>> THEN out
    ELSE serialize_serials_reversed(Tail(serials), <<canonical_serialize(Head(serials))>> \o out)

RECURSIVE serialize_serials(_, _)
\* the loop over self.old_serial_numbers
serialize_serials(serials, out) ==
    IF serials = <<>> THEN out
    ELSE serialize_serials(Tail(serials), Append(out, canonical_serialize(Head(serials))))

RECURSIVE serialize_records(_, _)
\* encrypted_records.iter().map(|record| record.write_le(&mut out)).collect()
serialize_records(records, out) ==
    IF records = <<>> THEN Ok(out)
    ELSE serialize_records(Tail(records), Append(out, write_value("EncryptedRecord", Head(records))))

serialize(self) ==
    LET old_serial_numbers == serialize_serials(self.old_serial_numbers, <<>>)
        ledger_digest == serialize_digest("Field", self.ledger_digest)
        new_commitments == serialize_many_digests("Field", self.new_commitments)
        program_commitment == serialize_digest("Field", self.program_commitment)
        local_data_root == serialize_digest("Field", self.local_data_root)
        signatures == serialize_many_digests("Signature", self.signatures)
        new_records == serialize_records(self.encrypted_records, <<>>)
        transaction_proof == serialize_bytes("Proof", self.transaction_proof)
        inner_circuit_id == serialize_digest("CircuitId", self.inner_circuit_id)
    IN  IF \/ ~ledger_digest.ok \/ ~new_commitments.ok \/ ~program_commitment.ok
           \/ ~local_data_root.ok \/ ~signatures.ok \/ ~new_records.ok
           \/ ~transaction_proof.ok \/ ~inner_circuit_id.ok
        THEN Err
        ELSE Ok([id |-> serialize_id(self),
                 network |-> self.network,
                 ledger_digest |-> ledger_digest.val,
                 old_serial_numbers |-> old_serial_numbers,
                 new_commitments |-> new_commitments.val,
                 program_commitment |-> program_commitment.val,
                 local_data_root |-> local_data_root.val,
                 value_balance |-> self.value_balance,
                 signatures |-> signatures.val,
                 new_records |-> new_records.val,
                 transaction_proof |-> transaction_proof.val,
                 memorandum |-> self.memorandum,
                 inner_circuit_id |-> inner_circuit_id.val])

RECURSIVE write_values(_, _, _)
\* for item in items { item.write_le(&mut writer)?; }
write_values(B, writer, items) ==
    IF items = <<>> THEN writer
    ELSE write_values(B, write_all(writer, write_value(B, Head(items))), Tail(items))

\* <Transaction<T> as ToBytes>::write_le (to_bytes_le![deserialized])
transaction_write_le(t) ==
    LET w1 == write_each(<<>>, serialize_serials(t.old_serial_numbers, <<>>))
        w2 == write_values("Field", w1, t.new_commitments)
        w3 == write_all(w2, write_value("Memorandum", t.memorandum))
        w4 == write_all(w3, write_value("Field", t.ledger_digest))
        w5 == write_all(w4, write_value("CircuitId", t.inner_circuit_id))
        w6 == write_all(w5, write_value("Proof", t.transaction_proof))
        w7 == write_all(w6, write_value("Field", t.program_commitment))
        w8 == write_all(w7, write_value("Field", t.local_data_root))
        w9 == write_all(w8, amount_write_le(t.value_balance))
        w10 == write_all(w9, network_write_le(t.network))
        w11 == write_values("Signature", w10, t.signatures)
        w12 == write_values("EncryptedRecord", w11, t.encrypted_records)
    IN  Ok(w12)

----------------------------------------------------------------------------
(* The transactions the operations are run on *)

Fields == {"id", "network", "ledger_digest", "old_serial_numbers", "new_commitments",
           "program_commitment", "local_data_root", "value_balance", "signatures",
           "new_records", "transaction_proof", "memorandum", "inner_circuit_id"}

DigestSeqFields == {"old_serial_numbers", "new_commitments", "signatures", "new_records"}
ScalarDigestFields == {"ledger_digest", "program_commitment", "local_data_root",
                       "transaction_proof", "memorandum", "inner_circuit_id"}

\* CanonicalSerialize::serialize(&test_serial_public, &mut test_serial)
test_serial == canonical_serialize([x |-> [i \in 1..FieldLimbs |-> 515], flag |-> TRUE])

\* vec![0u8; 1 + 1 + 32] with record[0] = 1: one field element and the flags
test_record == <<1>> \o Rep(0, ElemBytes("Field") + 1)

\* base_transaction of tests::transaction_round_trip
TestWire ==
    [id |-> Rep(0, IdLen),
     network |-> "Testnet1",
     ledger_digest |-> Rep(0, ByteLen("Field")),
     old_serial_numbers |-> <<test_serial, test_serial>>,
     new_commitments |-> <<Rep(3, ByteLen("Field")), Rep(5, ByteLen("Field"))>>,
     new_records |-> <<test_record, test_record>>,
     program_commitment |-> Rep(7, ByteLen("Field")),
     local_data_root |-> Rep(8, ByteLen("Field")),
     value_balance |-> 1000,
     signatures |-> <<Rep(0, ByteLen("Signature"))>>,
     transaction_proof |-> Rep(1, ByteLen("Proof")),
     memorandum |-> Rep(10, MemoLen),
     inner_circuit_id |-> Rep(1, ByteLen("CircuitId"))]

\* the same with no serial number, commitment, signature or record and a
\* zero value balance
EmptyWire ==
    [TestWire EXCEPT !.old_serial_numbers = <<>>, !.new_commitments = <<>>,
                     !.signatures = <<>>, !.new_records = <<>>, !.value_balance = 0]

\* a well-formed element of a sequence field of the wire transaction
GoodElem(f) ==
    CASE f = "old_serial_numbers" ->
            canonical_serialize([x |-> [i \in 1..FieldLimbs |-> 1301], flag |-> FALSE])
      [] f = "new_commitments" -> Rep(6, ByteLen("Field"))
      [] f = "signatures" -> Rep(4, ByteLen("Signature"))
      [] f = "new_records" -> <<1>> \o Rep(6, ElemBytes("Field")) \o <<1>>

\* the values a field of a base wire transaction is replaced by: well-formed
\* ones, truncated, over-long and non-canonical ones
WireAlts(f, v) ==
    CASE f = "id" -> {Rep(9, IdLen)}
      [] f = "network" -> {"Mainnet", "Testnet1"} \ {v}
      [] f = "value_balance" -> {0, -1000, 1000} \ {v}
      [] f \in ScalarDigestFields ->
            {Rep(4, Len(v)), Append(v, 9), Rep(255, Len(v)),
             IF f = "transaction_proof" THEN <<>> ELSE Take(v, Len(v) - 1)}
      [] f \in DigestSeqFields ->
            LET g == GoodElem(f)
                bad == Rep(255, Len(g))
            IN  {<<>>, Append(v, g), Append(v, bad), <<bad>> \o v,
                 Append(v, Append(g, 9))} \ {v}

\* a value of type B with every limb n
Val(B, n) == [e \in 1..Elems(B) |-> [i \in 1..Limbs(B) |-> n]]

\* a transaction as the DPC produces it: two spent records, two new records
TestTx ==
    [network |-> "Testnet1",
     ledger_digest |-> Val("Field", 779),
     old_serial_numbers |-> <<[x |-> [i \in 1..FieldLimbs |-> 515], flag |-> TRUE],
                              [x |-> [i \in 1..FieldLimbs |-> 1301], flag |-> FALSE]>>,
     new_commitments |-> <<Val("Field", 1029), Val("Field", 1543)>>,
     program_commitment |-> Val("Field", 2057),
     local_data_root |-> Val("Field", 2571),
     value_balance |-> 1000,
     signatures |-> <<Val("Signature", 3085)>>,
     encrypted_records |-> <<[encrypted_record |-> <<[i \in 1..FieldLimbs |-> 3599]>>,
                              final_sign_high |-> FALSE],
                             [encrypted_record |-> <<[i \in 1..FieldLimbs |-> 4113],
                                                     [i \in 1..FieldLimbs |-> 2]>>,
                              final_sign_high |-> TRUE]>>,
     transaction_proof |-> Val("Proof", 4370),
     memorandum |-> Rep(10, MemoLen),
     inner_circuit_id |-> Val("CircuitId", 259)]

EmptyTx ==
    [TestTx EXCEPT !.old_serial_numbers = <<>>, !.new_commitments = <<>>,
                   !.signatures = <<>>, !.encrypted_records = <<>>, !.value_balance = 0]

\* the values a field of a base transaction is replaced by; commitments and
\* records keep their counts
TxAlts(f, v) ==
    CASE f = "network" -> {"Mainnet", "Testnet1"} \ {v}
      [] f = "value_balance" -> {0, -1000, 1000} \ {v}
      [] f = "memorandum" -> {Rep(255, MemoLen)}
      [] f = "ledger_digest" -> {Val("Field", 4607)}
      [] f = "program_commitment" -> {Val("Field", 1)}
      [] f = "local_data_root" -> {Val("Field", 0)}
      [] f = "transaction_proof" -> {Val("Proof", 300)}
      [] f = "inner_circuit_id" -> {Val("CircuitId", 4607)}
      [] f = "old_serial_numbers" ->
            {<<>>, Append(v, [x |-> [i \in 1..FieldLimbs |-> 0], flag |-> TRUE])} \ {v}
      [] f = "signatures" -> {<<>>, Append(v, Val("Signature", 77))} \ {v}
      [] f = "new_commitments" ->
            IF v = <<>> THEN {} ELSE {[v EXCEPT ![1] = Val("Field", 4000)]}
      [] f = "encrypted_records" ->
            IF v = <<>> THEN {}
            ELSE {[v EXCEPT ![1] = [encrypted_record |-> <<>>, final_sign_high |-> TRUE]]}

\* the alternatives of field f of a wire transaction or of a transaction
AltsOf(kind, f, v) == IF kind = "wire" THEN WireAlts(f, v) ELSE TxAlts(f, v)

RECURSIVE Edited(_, _, _, _)
\* x with at most k of the fields fs replaced, each by one of its alternatives
Edited(kind, x, fs, k) ==
    IF k = 0 \/ fs = {} THEN {x}
    ELSE LET f == CHOOSE g \in fs : TRUE
         IN  Edited(kind, x, fs \ {f}, k)
               \cup UNION {Edited(kind, [x EXCEPT ![f] = a], fs \ {f}, k - 1) :
                             a \in AltsOf(kind, f, x[f])}

Inputs(kind, bases) == UNION {Edited(kind, base, DOMAIN base, MaxEdits) : base \in bases}

WireInputs == Inputs("wire", {TestWire, EmptyWire})
TxInputs == Inputs("tx", {TestTx, EmptyTx})

----------------------------------------------------------------------------
(* The operations *)

Init ==
    /\ \/ w \in WireInputs /\ d = NoTx
       \/ w = NoTx /\ d \in {Ok(t) : t \in TxInputs}
    /\ prevW = NoTx
    /\ prevD = NoTx
    /\ encW = NoBytes
    /\ encD = NoBytes
    /\ sz = NoSize
    /\ calls = 0
    /\ idLog = {}

\* let deserialized = DPCTransaction::deserialize(&tx)
Deserialize ==
    /\ w # NoTx
    /\ d' = deserialize(w)
    /\ prevW' = w
    /\ encD' = NoBytes
    /\ UNCHANGED <<w, prevD, encW, sz, calls, idLog>>

\* let reserialized = deserialized.serialize()
Serialize ==
    /\ d # NoTx
    /\ d.ok
    /\ calls < MaxCalls
    /\ LET r == serialize(d.val)
       IN  /\ r.ok
           /\ w' = r.val
           /\ idLog' = idLog \cup {<<d.val, r.val.id>>}
    /\ prevD' = d.val
    /\ encW' = NoBytes
    /\ sz' = NoSize
    /\ calls' = calls + 1
    /\ UNCHANGED <<d, prevW, encD>>

\* to_bytes_le![tx]
WriteLe ==
    /\ w # NoTx
    /\ encW' = write_le(w).val
    /\ UNCHANGED <<w, d, prevW, prevD, encD, sz, calls, idLog>>

\* to_bytes_le![deserialized]
TransactionWriteLe ==
    /\ d # NoTx
    /\ d.ok
    /\ encD' = transaction_write_le(d.val).val
    /\ UNCHANGED <<w, d, prevW, prevD, encW, sz, calls, idLog>>

\* tx.size()
Size ==
    /\ w # NoTx
    /\ sz' = size(w)
    /\ UNCHANGED <<w, d, prevW, prevD, encW, encD, calls, idLog>>

Next ==
    \/ Deserialize
    \/ Serialize
    \/ WriteLe
    \/ TransactionWriteLe
    \/ Size

Spec == Init /\ [][Next]_vars

----------------------------------------------------------------------------
(* The properties *)

\* d is deserialize(w)
Lifted == w # NoTx /\ d # NoTx /\ prevW = w
\* w is serialize(prevD)
Lowered == w # NoTx /\ prevD # NoTx
\* w is serialize(d), and d is deserialize(prevW)
Relowered == Lowered /\ d # NoTx /\ d.ok /\ prevD = d.val /\ prevW # NoTx

\* C1: deserialize(serialize(t)) succeeds and returns a transaction equal to
\* t in every field, the sequences with their order and their counts.
C1_LiftLowerIsIdentity ==
    (Lifted /\ Lowered) =>
        /\ d.ok
        /\ d.val = prevD
        /\ \A f \in {"old_serial_numbers", "new_commitments", "signatures", "encrypted_records"} :
              Len(d.val[f]) = Len(prevD[f])

C1_Witness ==
    /\ Lifted /\ Lowered
    /\ calls = 1
    /\ d = Ok(prevD)
    /\ prevD.value_balance < 0
    /\ Len(prevD.old_serial_numbers) = 2
    /\ prevD.old_serial_numbers[1] # prevD.old_serial_numbers[2]
    /\ Len(prevD.encrypted_records) = 2

\* C2: for every wire transaction that deserialize accepts,
\* serialize(deserialize(w)) equals w in every field but id, and its id is
\* transaction_id() of the deserialized transaction.
C2_LowerLiftIsIdentityButId ==
    Relowered =>
        /\ [w EXCEPT !.id = prevW.id] = prevW
        /\ w.id = transaction_id(d.val)

\* the bytes the layout of the wire format puts out for tx
Layout(tx) ==
    Flatten(tx.old_serial_numbers) \o Flatten(tx.new_commitments) \o tx.memorandum
        \o tx.ledger_digest \o tx.inner_circuit_id \o tx.transaction_proof
        \o tx.program_commitment \o tx.local_data_root
        \o amount_write_le(tx.value_balance) \o network_write_le(tx.network)
        \o Flatten(tx.signatures) \o Flatten(tx.new_records)

\* C3: write_le emits the serial numbers, the commitments, memorandum,
\* ledger_digest, inner_circuit_id, transaction_proof, program_commitment,
\* local_data_root, value_balance, network, the signatures and the records,
\* in this order and nothing else; the id is not written, so any other id
\* gives the same bytes.
C3_WriteLeLayout ==
    encW # NoBytes =>
        /\ encW = Layout(w)
        /\ \A other \in {Rep(0, IdLen), Rep(9, IdLen), Rep(255, IdLen)} :
              write_le([w EXCEPT !.id = other]) = Ok(encW)

C3_Witness ==
    /\ encW # NoBytes
    /\ encW = Layout(w)
    /\ Len(w.old_serial_numbers) = 2
    /\ Len(w.new_commitments) = 2
    /\ Len(w.signatures) = 1
    /\ Len(w.new_records) = 2
    /\ w.memorandum # w.ledger_digest
    /\ w.value_balance < 0

\* C4: the bytes of a wire transaction that deserialize accepts are the
\* bytes of the transaction deserialize returns for it.
C4_WireAndDomainEncodingsAgree ==
    (Lifted /\ d.ok /\ encW # NoBytes /\ encD # NoBytes) => encW = encD

\* C5: deserialize fails on a wire transaction whose new_records and
\* new_commitments differ in length.
C5_LengthMismatchIsRejected ==
    (Lifted /\ Len(w.new_records) # Len(w.new_commitments)) => ~d.ok

\* C6: every wire transaction serialize returns has as many new_records as
\* new_commitments.
C6_LoweredLengthsMatch ==
    Lowered => Len(w.new_records) = Len(w.new_commitments)

\* C7: size() is the base struct size, plus one digest unit for every serial
\* number, commitment and signature, plus the byte lengths of the records,
\* plus the byte length of the proof, with no other term.
C7_SizeAsStated ==
    sz # NoSize =>
        sz = SizeOfSerialTransaction
             + SizeOfDigest * Len(w.old_serial_numbers)
             + SizeOfDigest * Len(w.new_commitments)
             + SizeOfDigest * Len(w.signatures)
             + Len(Flatten(w.new_records))
             + Len(w.transaction_proof)

\* C7, amended: size() is the base struct size, plus one digest unit for
\* every serial number, commitment and signature, plus one record unit
\* (size_of::<SerialRecord>()) for every record, plus the byte lengths of the
\* records, plus the byte length of the proof.
C7_SizeWithRecordUnit ==
    sz # NoSize =>
        sz = SizeOfSerialTransaction
             + SizeOfDigest * Len(w.old_serial_numbers)
             + SizeOfDigest * Len(w.new_commitments)
             + SizeOfDigest * Len(w.signatures)
             + SizeOfSerialRecord * Len(w.new_records)
             + Len(Flatten(w.new_records))
             + Len(w.transaction_proof)

C7_Witness ==
    /\ sz # NoSize
    /\ Len(w.new_records) = 3
    /\ Len(w.signatures) = 1
    /\ Len(w.old_serial_numbers) = 2
    /\ Len(w.transaction_proof) > 0

StructuralFieldsWellFormed(tx) ==
    /\ read_le("Field", tx.ledger_digest).ok
    /\ read_le("Field", tx.program_commitment).ok
    /\ read_le("Field", tx.local_data_root).ok
    /\ read_le("Memorandum", tx.memorandum).ok
    /\ read_le("CircuitId", tx.inner_circuit_id).ok

\* no serial number, commitment, signature or record, and a zero balance
EmptyTransaction(tx) ==
    /\ tx.old_serial_numbers = <<>>
    /\ tx.new_commitments = <<>>
    /\ tx.signatures = <<>>
    /\ tx.new_records = <<>>
    /\ tx.value_balance = 0
    /\ StructuralFieldsWellFormed(tx)

\* C9: an empty wire transaction with a zero-length proof is written by
\* write_le without error and decoded by deserialize without error.
C9_EmptyWithEmptyProofDecodes ==
    (w # NoTx /\ EmptyTransaction(w) /\ w.transaction_proof = <<>>) =>
        /\ write_le(w).ok
        /\ encW # NoBytes => encW = write_le(w).val
        /\ Lifted => d.ok

\* C9, amended: an empty wire transaction is written by write_le without
\* error whatever its proof; deserialize decodes it without error when its
\* transaction_proof holds the bytes of a proof, and returns a decode error
\* when the proof is zero-length.
C9_EmptyDecodesWithProof ==
    (w # NoTx /\ EmptyTransaction(w)) =>
        /\ write_le(w).ok
        /\ encW # NoBytes => encW = write_le(w).val
        /\ (Lifted /\ read_le("Proof", w.transaction_proof).ok) => d.ok
        /\ (Lifted /\ w.transaction_proof = <<>>) => d = Err

C9_Witness ==
    /\ w # NoTx
    /\ EmptyTransaction(w)
    /\ w.transaction_proof = <<>>
    /\ encW # NoBytes
    /\ Lifted
    /\ d = Err

\* some field of tx, or some element of a sequence of tx, does not decode
SomeDecodeFails(tx) ==
    \/ \E i \in 1..Len(tx.old_serial_numbers) : ~canonical_deserialize(tx.old_serial_numbers[i]).ok
    \/ \E i \in 1..Len(tx.new_commitments) : ~read_le("Field", tx.new_commitments[i]).ok
    \/ \E i \in 1..Len(tx.signatures) : ~read_le("Signature", tx.signatures[i]).ok
    \/ \E i \in 1..Len(tx.new_records) : ~read_le("EncryptedRecord", tx.new_records[i]).ok
    \/ ~read_le("Proof", tx.transaction_proof).ok
    \/ ~StructuralFieldsWellFormed(tx)

\* the sequence fields of the wire transaction that deserialize_many_bytes
\* decodes, each with the type of its elements
ManyBytesFields ==
    {<<"new_commitments", "Field">>, <<"signatures", "Signature">>,
     <<"new_records", "EncryptedRecord">>}

\* a step of Deserialize: no other operation writes d or prevW, or clears encD
DeserializeStep ==
    \/ d' # d
    \/ prevW' # prevW
    \/ encD' = NoBytes /\ encD # NoBytes

\* C10: deserialize is all-or-nothing: when a field or an element of a
\* sequence fails to decode it returns an error and no transaction;
\* deserialize_many_bytes returns the error alone, with none of the elements
\* decoded before it, when an element fails; the wire transaction is left
\* as it was.
C10_AllOrNothing ==
    [][DeserializeStep =>
        /\ w' = w
        /\ SomeDecodeFails(w) => d' = Err
        /\ \A p \in ManyBytesFields :
              (\E i \in 1..Len(w[p[1]]) : ~read_le(p[2], w[p[1]][i]).ok)
                  => deserialize_many_bytes(p[2], w[p[1]]) = Err]_vars

C10_Witness ==
    /\ Lifted
    /\ d = Err
    /\ Len(w.new_commitments) = 3
    /\ read_le("Field", w.new_commitments[1]).ok
    /\ read_le("Field", w.new_commitments[2]).ok
    /\ ~read_le("Field", w.new_commitments[3]).ok

====
